---- MODULE Spec2Model ----
(***************************************************************************)
(* Model of train/decoder/generation_trainer.py: the GenerationDecoder     *)
(* LightningModule (construction with optional checkpoint load, parameter  *)
(* freezing, training_step, configure_optimizers, on_save_checkpoint) and  *)
(* the trainer callbacks that drive it.                                    *)
(*                                                                         *)
(* Strings are sequences of one-character strings, so that startswith and  *)
(* replace act on characters as Python's do.  A Python dict is a sequence  *)
(* of <<key, value>> pairs with distinct keys, in insertion order.         *)
(* Tensors are abstracted to integers; two tensors are bit-identical when  *)
(* the integers are equal.                                                 *)
(***************************************************************************)
EXTENDS Integers, Sequences, FiniteSets, TLC

\* ------------------------------------------------------------------ bounds
MaxDitKeys == 2
MaxRecordExtra == 2
MaxTrainerEntries == 1
MaxSteps == 3
MaxWarmup == 2
MaxRate == 2
MaxLaunches == 2

\* ------------------------------------------------------- python builtins
\* str.startswith(prefix)
startswith(s, p) ==
    /\ Len(s) >= Len(p)
    /\ SubSeq(s, 1, Len(p)) = p

\* str.replace(old, new): every non-overlapping occurrence, left to right
RECURSIVE replace(_, _, _)
replace(s, old, new) ==
    IF Len(s) < Len(old) THEN s
    ELSE IF startswith(s, old)
         THEN new \o replace(SubSeq(s, Len(old) + 1, Len(s)), old, new)
         ELSE <<Head(s)>> \o replace(Tail(s), old, new)

\* keys of a dict, as a set
Keys(d) == { d[i][1] : i \in 1..Len(d) }

\* d[k]
Get(d, k) == d[CHOOSE i \in 1..Len(d) : d[i][1] = k][2]

\* d[k] = v: an existing key keeps its place, a new key goes last
DictSet(d, k, v) ==
    IF k \in Keys(d)
    THEN [i \in 1..Len(d) |-> IF d[i][1] = k THEN <<k, v>> ELSE d[i]]
    ELSE Append(d, <<k, v>>)

\* d.update(e)
RECURSIVE DictUpdate(_, _)
DictUpdate(d, e) ==
    IF e = <<>> THEN d
    ELSE DictUpdate(DictSet(d, Head(e)[1], Head(e)[2]), Tail(e))

\* ------------------------------------------------------------- key names
ADAPTER_PREFIX == <<"a", "d", "a", "p", "t", "e", "r", ".">>
DIT_PREFIX == <<"p", "i", "p", "e", ".", "d", "i", "t", ".">>
WEIGHT == <<"w", "e", "i", "g", "h", "t">>
BIAS == <<"b", "i", "a", "s">>

\* state_dict keys of Sequential(Linear, LayerNorm, ReLU, Linear, LayerNorm):
\* modules 0, 1, 3 and 4 own a weight and a bias, module 2 (ReLU) owns nothing
AdapterKeys ==
    << <<"0", ".">> \o WEIGHT, <<"0", ".">> \o BIAS,
       <<"1", ".">> \o WEIGHT, <<"1", ".">> \o BIAS,
       <<"3", ".">> \o WEIGHT, <<"3", ".">> \o BIAS,
       <<"4", ".">> \o WEIGHT, <<"4", ".">> \o BIAS >>

\* parameter names the denoising sub-network may carry (it is built outside
\* this file): plain names and names that contain the prefix texts
DitKeyUniverse ==
    { WEIGHT, BIAS, DIT_PREFIX \o WEIGHT }

\* sequences over S without repetition, of length 0..n
RECURSIVE SeqsNoRep(_, _)
SeqsNoRep(S, n) ==
    IF n = 0 THEN { <<>> }
    ELSE LET shorter == SeqsNoRep(S, n - 1)
             longer == { Append(q, x) : q \in shorter, x \in S }
         IN  shorter \cup
             { q \in longer : \A i, j \in 1..Len(q) : q[i] = q[j] => i = j }

DitKeySeqs == SeqsNoRep(DitKeyUniverse, MaxDitKeys) \ { <<>> }

\* ------------------------------------------------------- the pipeline
\* sub-networks of the loaded pipeline; denoising_model() is "dit"
PipeModules == {"text_encoder", "vae_encoder", "vae_decoder", "dit"}
Modules == PipeModules \cup {"adapter"}

\* every parameter, as <<module, key>>
Params(dk) ==
    { <<"adapter", AdapterKeys[i]>> : i \in 1..Len(AdapterKeys) }
    \cup { <<"dit", dk[j]>> : j \in 1..Len(dk) }
    \cup { <<m, WEIGHT>> : m \in PipeModules \ {"dit"} }

\* a freshly initialized adapter (lines 48-53): one tensor per key
FreshAdapter == [i \in 1..Len(AdapterKeys) |-> <<AdapterKeys[i], i>>]

\* the denoising sub-network as the model manager loaded it
PretrainedDit(dk) == [j \in 1..Len(dk) |-> <<dk[j], 20 + j>>]

\* scheduler.set_timesteps(n, training): a table of n entries
set_timesteps(n, is_training) ==
    [num_train_timesteps |-> 1000, num_timesteps |-> n, training |-> is_training]

\* scheduler.timesteps[i], i counted from 0: the table descends from
\* num_train_timesteps
timesteps(sch, i) == sch.num_train_timesteps - i

\* ------------------------------------------------------- checkpoint load
\* {key.replace("adapter.", ""): value for key, value in state_dict.items()
\*  if key.startswith('adapter.')}
RECURSIVE adapter_state_dict_of(_)
adapter_state_dict_of(state_dict) ==
    IF state_dict = <<>> THEN <<>>
    ELSE LET n == Len(state_dict)
             key == state_dict[n][1]
             value == state_dict[n][2]
             rest == adapter_state_dict_of(SubSeq(state_dict, 1, n - 1))
         IN  IF startswith(key, ADAPTER_PREFIX)
             THEN DictSet(rest, replace(key, ADAPTER_PREFIX, <<>>), value)
             ELSE rest

\* {key.replace("pipe.dit.", ""): value for key, value in state_dict.items()
\*  if not key.startswith('adapter.')}
RECURSIVE dit_state_dict_of(_)
dit_state_dict_of(state_dict) ==
    IF state_dict = <<>> THEN <<>>
    ELSE LET n == Len(state_dict)
             key == state_dict[n][1]
             value == state_dict[n][2]
             rest == dit_state_dict_of(SubSeq(state_dict, 1, n - 1))
         IN  IF ~startswith(key, ADAPTER_PREFIX)
             THEN DictSet(rest, replace(key, DIT_PREFIX, <<>>), value)
             ELSE rest

\* load_state_dict with strict=False: mismatched keys are skipped silently
load_state_dict_lenient(module_sd, state_dict) ==
    [ok |-> TRUE,
     sd |-> [i \in 1..Len(module_sd) |->
               IF module_sd[i][1] \in Keys(state_dict)
               THEN <<module_sd[i][1], Get(state_dict, module_sd[i][1])>>
               ELSE module_sd[i]]]

\* module.load_state_dict(state_dict), strict by default: raises when a key
\* of the module is missing or a key of state_dict is unexpected
load_state_dict(module_sd, state_dict) ==
    LET ok == Keys(state_dict) = Keys(module_sd)
    IN  [ok |-> ok,
         sd |-> [i \in 1..Len(module_sd) |->
                   IF module_sd[i][1] \in Keys(state_dict)
                   THEN <<module_sd[i][1], Get(state_dict, module_sd[i][1])>>
                   ELSE module_sd[i]]]

\* ------------------------------------------------------- freezing
\* module.requires_grad_(flag) for the modules in mods
requires_grad_(rg, mods, flag) ==
    [p \in DOMAIN rg |-> IF p[1] \in mods THEN flag ELSE rg[p]]

\* module.train() / module.eval() for the modules in mods
set_mode(tr, mods, flag) ==
    [m \in DOMAIN tr |-> IF m \in mods THEN flag ELSE tr[m]]

\* freeze_parameters without the pipeline-wide requires_grad_(False) / eval()
freeze_parameters_trainable_only(flags) ==
    [requires_grad |->
        requires_grad_(flags.requires_grad, {"dit", "adapter"}, TRUE),
     training |-> set_mode(flags.training, {"dit", "adapter"}, TRUE)]

freeze_parameters(flags) ==
    LET rg1 == requires_grad_(flags.requires_grad, PipeModules, FALSE)
        tr1 == set_mode(flags.training, PipeModules, FALSE)
        rg2 == requires_grad_(rg1, {"dit"}, TRUE)
        tr2 == set_mode(tr1, {"dit"}, TRUE)
        rg3 == requires_grad_(rg2, {"adapter"}, TRUE)
        tr3 == set_mode(tr2, {"adapter"}, TRUE)
    IN  [requires_grad |-> rg3, training |-> tr3]

\* ------------------------------------------------------- optimizer
\* a warmup that is still ramping at current_step = num_warmup_steps
lr_lambda_late(current_step, num_warmup_steps) ==
    IF current_step <= num_warmup_steps
    THEN [num |-> current_step, den |-> num_warmup_steps + 1]
    ELSE [num |-> 1, den |-> 1]

\* the rate factor of get_constant_schedule_with_warmup at current_step,
\* as a fraction
lr_lambda(current_step, num_warmup_steps) ==
    IF current_step < num_warmup_steps
    THEN [num |-> current_step,
          den |-> IF num_warmup_steps > 1 THEN num_warmup_steps ELSE 1]
    ELSE [num |-> 1, den |-> 1]

\* base_lr * lr_lambda(step): what the scheduler writes into the optimizer
scheduled_lr(base_lr, current_step, num_warmup_steps) ==
    LET f == lr_lambda(current_step, num_warmup_steps)
    IN  [num |-> base_lr * f.num, den |-> f.den]

\* an optimizer over the adapter alone
trainable_modules_adapter_only(adapter_sd, dit_sd) ==
    [i \in 1..Len(adapter_sd) |-> <<"adapter", adapter_sd[i][1]>>]

\* itertools.chain(adapter.parameters(), denoising_model().parameters())
trainable_modules(adapter_sd, dit_sd) ==
    [i \in 1..Len(adapter_sd) |-> <<"adapter", adapter_sd[i][1]>>]
    \o [j \in 1..Len(dit_sd) |-> <<"dit", dit_sd[j][1]>>]

configure_optimizers(learning_rate, lr_warmup_steps, adapter_sd, dit_sd) ==
    [optimizer |->
        [params |-> trainable_modules(adapter_sd, dit_sd),
         base_lr |-> learning_rate,
         lr |-> scheduled_lr(learning_rate, 0, lr_warmup_steps)],
     lr_scheduler |->
        [num_warmup_steps |-> lr_warmup_steps,
         last_epoch |-> 0,
         interval |-> "step",
         frequency |-> 1]]

\* ------------------------------------------------------- checkpoint save
\* {f"{prefix}{key}": value for key, value in sd.items()}
prefixed(prefix, sd) == [i \in 1..Len(sd) |-> <<prefix \o sd[i][1], sd[i][2]>>]

\* on_save_checkpoint without checkpoint.clear()
save_checkpoint_keep(checkpoint, adapter_sd, dit_sd) ==
    LET with_dit == DictUpdate(checkpoint, prefixed(DIT_PREFIX, dit_sd))
    IN  DictUpdate(with_dit, prefixed(ADAPTER_PREFIX, adapter_sd))

\* the checkpoint mapping as on_save_checkpoint leaves it
save_checkpoint(checkpoint, adapter_sd, dit_sd) ==
    LET cleared == <<>>
        with_dit == DictUpdate(cleared, prefixed(DIT_PREFIX, dit_sd))
    IN  DictUpdate(with_dit, prefixed(ADAPTER_PREFIX, adapter_sd))

\* ------------------------------------------------------- training step
\* randint with an inclusive upper end
timestep_ids_inclusive(sch) == 0..sch.num_train_timesteps

\* torch.randint(0, num_train_timesteps, (1,)): the indices it can draw
timestep_ids(sch) == 0..(sch.num_train_timesteps - 1)

\* batches the data loader yields: `embed` and at least one of `image`,
\* `latents`
Batches == { {"embed", "image"}, {"embed", "latents"}, {"embed", "image", "latents"} }

NoStep ==
    [batch_keys |-> {}, outcome |-> "none", latents_from |-> "none",
     vae_encoder_called |-> FALSE, n_timestep_ids |-> 0,
     timestep_id |-> 0, timestep |-> 0,
     add_noise_timestep |-> 0, training_target_timestep |-> 0,
     dit_timestep |-> 0, training_weight_timestep |-> 0]

\* a step that resets pipe.device instead of following the module
pipe_device_after_reset(outcome, self_device, old) == "cpu"

\* self.pipe.device = self.device (line 85), reached unless line 82 raised
pipe_device_after(outcome, self_device, old) ==
    IF outcome = "KeyError" THEN old ELSE self_device

\* what one call of training_step does with a batch and a drawn index
step_result(batch_keys, timestep_id, sch) ==
    IF ~({"embed", "image"} \subseteq batch_keys)
    THEN \* line 82: batch["embed"], batch["image"]
         [NoStep EXCEPT !.batch_keys = batch_keys, !.outcome = "KeyError"]
    ELSE LET from_batch == "latents" \in batch_keys
             resolved == [NoStep EXCEPT
                 !.batch_keys = batch_keys,
                 !.latents_from = IF from_batch THEN "batch" ELSE "vae_encoder",
                 !.vae_encoder_called = ~from_batch,
                 !.n_timestep_ids = 1,
                 !.timestep_id = timestep_id]
         IN  IF timestep_id >= sch.num_timesteps
             THEN \* line 98: the index is outside the table
                  [resolved EXCEPT !.outcome = "IndexError"]
             ELSE LET timestep == timesteps(sch, timestep_id)
                  IN  [resolved EXCEPT
                         !.outcome = "loss",
                         !.timestep = timestep,
                         !.add_noise_timestep = timestep,
                         !.training_target_timestep = timestep,
                         !.dit_timestep = timestep,
                         !.training_weight_timestep = timestep]

\* ------------------------------------------------------------- state
VARIABLES
    phase,            \* "start", "ready", "failed", "fitting", "crashed"
    launches,         \* how often the script was started
    learning_rate,    \* self.learning_rate
    lr_warmup_steps,  \* self.lr_warmup_steps
    dit_keys,         \* parameter names of the denoising sub-network
    ckpt_file,        \* the checkpoint record on disk
    adapter,          \* self.adapter.state_dict()
    dit,              \* self.pipe.denoising_model().state_dict()
    requires_grad,    \* parameter -> gradient tracking enabled
    training,         \* module -> training mode
    device,           \* self.device
    pipe_device,      \* self.pipe.device
    scheduler,        \* self.pipe.scheduler
    optimizer,        \* self.trainer.optimizers[0]
    lr_scheduler,     \* the schedule and how the trainer advances it
    batch_idx,        \* batches seen in this run
    pending,          \* a loss was returned and not yet stepped on
    step,             \* what the last training_step did
    logged,           \* metrics reported by self.log
    checkpoint_in,    \* the mapping handed to on_save_checkpoint
    checkpoint,       \* the mapping as on_save_checkpoint left it
    loaded,           \* what __init__ handed to the two load_state_dict calls
    saved             \* the two state dicts at the last save

vars == <<phase, launches, learning_rate, lr_warmup_steps, dit_keys, ckpt_file,
          adapter, dit, requires_grad, training, device, pipe_device, scheduler,
          optimizer, lr_scheduler, batch_idx, pending, step, logged,
          checkpoint_in, checkpoint, loaded, saved>>

config_vars == <<learning_rate, lr_warmup_steps, dit_keys>>
module_vars == <<adapter, dit, requires_grad, training, scheduler>>
trainer_vars == <<optimizer, lr_scheduler>>
save_vars == <<checkpoint_in, checkpoint, saved>>

NoRate == [num |-> 0, den |-> 1]
NoOptimizer == [params |-> <<>>, base_lr |-> 0, lr |-> NoRate]
NoLrScheduler ==
    [num_warmup_steps |-> 0, last_epoch |-> 0, interval |-> "none", frequency |-> 0]
NoScheduler == [num_train_timesteps |-> 0, num_timesteps |-> 0, training |-> FALSE]
NoLoaded ==
    [used |-> FALSE, state_dict |-> <<>>,
     adapter_state_dict |-> <<>>, dit_state_dict |-> <<>>]
NoSaved == [done |-> FALSE, adapter |-> <<>>, dit |-> <<>>]
NoFile == [exists |-> FALSE, data |-> <<>>]
NoLogged == [n |-> 0, train_learning_rate |-> NoRate, train_loss |-> FALSE]

\* the state before the script has built anything
Unbuilt ==
    /\ adapter = <<>>
    /\ dit = <<>>
    /\ requires_grad = <<>>
    /\ training = <<>>
    /\ device = "cpu"
    /\ pipe_device = "cpu"
    /\ scheduler = NoScheduler
    /\ optimizer = NoOptimizer
    /\ lr_scheduler = NoLrScheduler
    /\ batch_idx = 0
    /\ pending = FALSE
    /\ step = NoStep
    /\ logged = NoLogged
    /\ checkpoint_in = <<>>
    /\ checkpoint = <<>>
    /\ loaded = NoLoaded

\* ------------------------------------------------------- inputs
\* keys a checkpoint file may hold next to the adapter's
RecordKeyUniverse ==
    { DIT_PREFIX \o WEIGHT, WEIGHT, DIT_PREFIX \o DIT_PREFIX \o WEIGHT }

\* the adapter's part of a file: complete, one key short, or with the
\* prefix written twice on the first key
AdapterParts ==
    LET full == [i \in 1..Len(AdapterKeys) |-> ADAPTER_PREFIX \o AdapterKeys[i]]
    IN  { full,
          SubSeq(full, 1, Len(full) - 1),
          [full EXCEPT ![1] = ADAPTER_PREFIX \o full[1]] }

\* checkpoint files the user may point load_from at; the tensor of the
\* i-th entry is 100 + i
InputRecords ==
    LET keyseqs ==
            UNION { { a \o d, d \o a } :
                      a \in AdapterParts,
                      d \in SeqsNoRep(RecordKeyUniverse, MaxRecordExtra) }
    IN  { [i \in 1..Len(ks) |-> <<ks[i], 100 + i>>] : ks \in keyseqs }

\* entries the trainer engine puts into a checkpoint before the hook runs
EPOCH == <<"e", "p", "o", "c", "h">>
STATE_DICT == <<"s", "t", "a", "t", "e", "_", "d", "i", "c", "t">>
OPTIMIZER_STATES == <<"o", "p", "t", "i", "m", "i", "z", "e", "r", "_", "s", "t", "a", "t", "e", "s">>
TrainerKeys == { EPOCH, STATE_DICT, OPTIMIZER_STATES }

TrainerCheckpoints ==
    { [i \in 1..Len(ks) |-> <<ks[i], 900 + i>>] :
        ks \in SeqsNoRep(TrainerKeys, MaxTrainerEntries) }

\* ------------------------------------------------------- actions
\* GenerationDecoder.__init__ (lines 13-62), called from the script with
\* load_from None or the path of the checkpoint file
GenerationDecoder_init ==
    /\ phase = "start"
    /\ \E load_from \in {"None", "file"},
          grad0 \in SUBSET PipeModules, train0 \in BOOLEAN :
         LET state_dict == ckpt_file.data
             adapter_state_dict == adapter_state_dict_of(state_dict)
             dit_state_dict == dit_state_dict_of(state_dict)
             r_adapter == load_state_dict(FreshAdapter, adapter_state_dict)
             r_dit == load_state_dict(PretrainedDit(dit_keys), dit_state_dict)
             flags0 ==
                 [requires_grad |->
                     [p \in Params(dit_keys) |->
                        IF p[1] = "adapter" THEN TRUE ELSE p[1] \in grad0],
                  training |->
                     [m \in Modules |-> IF m = "adapter" THEN TRUE ELSE train0]]
             flags == freeze_parameters(flags0)
             built(a, d) ==
                 /\ phase' = "ready"
                 /\ adapter' = a
                 /\ dit' = d
                 /\ scheduler' = set_timesteps(1000, TRUE)
                 /\ requires_grad' = flags.requires_grad
                 /\ training' = flags.training
         IN  IF load_from = "None"
             THEN /\ built(FreshAdapter, PretrainedDit(dit_keys))
                  /\ UNCHANGED loaded
             ELSE IF ~ckpt_file.exists
             THEN \* torch.load raises
                  /\ phase' = "failed"
                  /\ UNCHANGED <<module_vars, loaded>>
             ELSE /\ loaded' = [used |-> TRUE, state_dict |-> state_dict,
                                adapter_state_dict |-> adapter_state_dict,
                                dit_state_dict |-> dit_state_dict]
                  /\ IF r_adapter.ok /\ r_dit.ok
                     THEN built(r_adapter.sd, r_dit.sd)
                     ELSE \* load_state_dict raises
                          /\ phase' = "failed"
                          /\ UNCHANGED module_vars
    /\ UNCHANGED <<launches, config_vars, ckpt_file, device, pipe_device,
                   trainer_vars, batch_idx, pending, step, logged, save_vars>>

\* launch_training_task (lines 156-186): the trainer moves the module to
\* the accelerator and calls configure_optimizers
launch_training_task ==
    /\ phase = "ready"
    /\ phase' = "fitting"
    /\ device' = "cuda"
    /\ LET c == configure_optimizers(learning_rate, lr_warmup_steps, adapter, dit)
       IN  /\ optimizer' = c.optimizer
           /\ lr_scheduler' = c.lr_scheduler
    /\ UNCHANGED <<launches, config_vars, ckpt_file, module_vars, pipe_device,
                   batch_idx, pending, step, logged, save_vars, loaded>>

\* GenerationDecoder.training_step (lines 80-115)
training_step ==
    /\ phase = "fitting"
    /\ ~pending
    /\ batch_idx < MaxSteps
    /\ \E batch_keys \in Batches, timestep_id \in timestep_ids(scheduler) :
         LET r == step_result(batch_keys, timestep_id, scheduler)
         IN  /\ step' = r
             /\ pipe_device' = pipe_device_after(r.outcome, device, pipe_device)
             /\ IF r.outcome = "KeyError"
                THEN /\ phase' = "crashed"
                     /\ UNCHANGED <<logged, pending>>
                ELSE /\ IF r.outcome = "loss"
                        THEN /\ logged' = [n |-> logged.n + 1,
                                           train_learning_rate |-> optimizer.lr,
                                           train_loss |-> TRUE]
                             /\ pending' = TRUE
                             /\ phase' = phase
                        ELSE /\ phase' = "crashed"
                             /\ UNCHANGED <<logged, pending>>
    /\ batch_idx' = batch_idx + 1
    /\ UNCHANGED <<launches, config_vars, ckpt_file, module_vars, device,
                   trainer_vars, save_vars, loaded>>

\* the trainer after a step returned a loss: optimizer.step() on the
\* optimizer's parameters, then the schedule as configure_optimizers asked
optimizer_step ==
    /\ phase = "fitting"
    /\ pending
    /\ pending' = FALSE
    /\ LET updated(m, sd) ==
               [i \in 1..Len(sd) |->
                  IF /\ \E j \in 1..Len(optimizer.params) :
                            optimizer.params[j] = <<m, sd[i][1]>>
                     /\ requires_grad[<<m, sd[i][1]>>]
                  THEN <<sd[i][1], sd[i][2] + 1000>>
                  ELSE sd[i]]
           advance == lr_scheduler.interval = "step" /\ lr_scheduler.frequency = 1
           last_epoch == lr_scheduler.last_epoch + (IF advance THEN 1 ELSE 0)
       IN  /\ adapter' = updated("adapter", adapter)
           /\ dit' = updated("dit", dit)
           /\ lr_scheduler' = [lr_scheduler EXCEPT !.last_epoch = last_epoch]
           /\ optimizer' = [optimizer EXCEPT !.lr =
                  scheduled_lr(optimizer.base_lr, last_epoch,
                               lr_scheduler.num_warmup_steps)]
    /\ step' = NoStep
    /\ UNCHANGED <<phase, launches, config_vars, ckpt_file, requires_grad,
                   training, scheduler, device, pipe_device, batch_idx, logged,
                   save_vars, loaded>>

\* GenerationDecoder.on_save_checkpoint (lines 145-153), called by the
\* ModelCheckpoint callback, which then writes the mapping to disk
on_save_checkpoint ==
    /\ phase = "fitting"
    /\ ~pending
    /\ \E trainer_entries \in TrainerCheckpoints :
         /\ checkpoint_in' = trainer_entries
         /\ checkpoint' = save_checkpoint(trainer_entries, adapter, dit)
    /\ saved' = [done |-> TRUE, adapter |-> adapter, dit |-> dit]
    /\ ckpt_file' = [exists |-> TRUE, data |-> checkpoint']
    /\ UNCHANGED <<phase, launches, config_vars, module_vars, device,
                   pipe_device, trainer_vars, batch_idx, pending, step, logged,
                   loaded>>

\* the script is started again (lines 340-351); only the file on disk
\* outlives the process
relaunch ==
    /\ phase \in {"fitting", "failed", "crashed"}
    /\ launches < MaxLaunches
    /\ launches' = launches + 1
    /\ phase' = "start"
    /\ adapter' = <<>>
    /\ dit' = <<>>
    /\ requires_grad' = <<>>
    /\ training' = <<>>
    /\ device' = "cpu"
    /\ pipe_device' = "cpu"
    /\ scheduler' = NoScheduler
    /\ optimizer' = NoOptimizer
    /\ lr_scheduler' = NoLrScheduler
    /\ batch_idx' = 0
    /\ pending' = FALSE
    /\ step' = NoStep
    /\ logged' = NoLogged
    /\ checkpoint_in' = <<>>
    /\ checkpoint' = <<>>
    /\ loaded' = NoLoaded
    /\ UNCHANGED <<config_vars, ckpt_file, saved>>

\* ------------------------------------------------------- specifications
\* checkpoint files of any content, denoising sub-networks of any naming
Init ==
    /\ phase = "start"
    /\ launches = 1
    /\ learning_rate = 1
    /\ lr_warmup_steps = 1
    /\ dit_keys \in DitKeySeqs
    /\ ckpt_file \in {NoFile} \cup { [exists |-> TRUE, data |-> r] : r \in InputRecords }
    /\ saved = NoSaved
    /\ Unbuilt

Next ==
    \/ GenerationDecoder_init
    \/ launch_training_task
    \/ on_save_checkpoint
    \/ relaunch

Spec == Init /\ [][Next]_vars

\* a checkpoint an earlier run of the script wrote after one optimizer step
EarlierCheckpoint(dk) ==
    LET trained(sd) == [i \in 1..Len(sd) |-> <<sd[i][1], sd[i][2] + 1000>>]
    IN  save_checkpoint(<<>>, trained(FreshAdapter), trained(PretrainedDit(dk)))

\* one training run with the script's default rate and warmup, with or
\* without a checkpoint of an earlier run to load
InitTrain ==
    /\ phase = "start"
    /\ launches = 1
    /\ learning_rate = 1
    /\ lr_warmup_steps = 1
    /\ dit_keys = <<WEIGHT, BIAS>>
    /\ ckpt_file \in {NoFile, [exists |-> TRUE, data |-> EarlierCheckpoint(dit_keys)]}
    /\ saved = NoSaved
    /\ Unbuilt

NextTrain ==
    \/ GenerationDecoder_init
    \/ launch_training_task
    \/ training_step
    \/ optimizer_step
    \/ on_save_checkpoint

SpecTrain == InitTrain /\ [][NextTrain]_vars

\* one training run under any rate and warmup
InitSched ==
    /\ phase = "start"
    /\ launches = 1
    /\ learning_rate \in 1..MaxRate
    /\ lr_warmup_steps \in 0..MaxWarmup
    /\ dit_keys = <<WEIGHT>>
    /\ ckpt_file = NoFile
    /\ saved = NoSaved
    /\ Unbuilt

NextSched ==
    \/ GenerationDecoder_init
    \/ launch_training_task
    \/ training_step
    \/ optimizer_step

SpecSched == InitSched /\ [][NextSched]_vars

\* ------------------------------------------------------- properties
\* a dict as its set of <<key, value>> pairs
Items(d) == { d[i] : i \in 1..Len(d) }

\* key without its leading prefix p
WithoutPrefix(key, p) == SubSeq(key, Len(p) + 1, Len(key))

AdapterKeySet == { AdapterKeys[i] : i \in 1..Len(AdapterKeys) }
DitKeySet == { dit_keys[j] : j \in 1..Len(dit_keys) }

\* this launch loaded the file that the last on_save_checkpoint wrote
LoadedWhatWasSaved == saved.done /\ loaded.used /\ checkpoint = <<>>

\* C1: checkpoint round trip.  When a model is constructed with load_from
\* naming the record on_save_checkpoint wrote, the mappings handed to the
\* adapter and to the denoising sub-network have the keys and values of the
\* two state dicts that were saved.
C1_RoundTrip ==
    LoadedWhatWasSaved =>
        /\ Items(loaded.adapter_state_dict) = Items(saved.adapter)
        /\ Items(loaded.dit_state_dict) = Items(saved.dit)

\* C2: weights-only save.  Whatever the trainer had put into the mapping,
\* after on_save_checkpoint its keys are exactly the prefixed keys of the
\* denoising sub-network and of the adapter, each with that parameter's
\* value, and no entry of the trainer is left.
C2_WeightsOnlySave ==
    checkpoint # <<>> =>
        /\ Keys(checkpoint) =
              { DIT_PREFIX \o k : k \in Keys(saved.dit) }
              \cup { ADAPTER_PREFIX \o k : k \in Keys(saved.adapter) }
        /\ Len(checkpoint) = Len(saved.dit) + Len(saved.adapter)
        /\ \A k \in Keys(saved.dit) :
              Get(checkpoint, DIT_PREFIX \o k) = Get(saved.dit, k)
        /\ \A k \in Keys(saved.adapter) :
              Get(checkpoint, ADAPTER_PREFIX \o k) = Get(saved.adapter, k)
        /\ \A e \in Items(checkpoint) :
              startswith(e[1], DIT_PREFIX) \/ startswith(e[1], ADAPTER_PREFIX)
        /\ Keys(checkpoint_in) \cap Keys(checkpoint) = {}

C2_Witness ==
    /\ checkpoint # <<>>
    /\ Len(checkpoint_in) = MaxTrainerEntries
    /\ Len(dit_keys) > 1

\* C3: freezing invariant.  Once construction has completed, with or
\* without a checkpoint load, gradient tracking is enabled for exactly the
\* adapter's and the denoising sub-network's parameters, exactly these two
\* sub-networks are in training mode, and training steps and checkpoint
\* saves leave it so.
C3_Freezing ==
    phase \in {"ready", "fitting", "crashed"} =>
        /\ DOMAIN requires_grad = Params(dit_keys)
        /\ \A p \in Params(dit_keys) :
              requires_grad[p] <=> p[1] \in {"adapter", "dit"}
        /\ \A m \in Modules : training[m] <=> m \in {"adapter", "dit"}

C3_Witness ==
    /\ phase = "fitting"
    /\ loaded.used
    /\ batch_idx = MaxSteps
    /\ saved.done

\* C4: latent resolution.  A step on a batch with `embed` and at least one
\* of `image`, `latents` returns a loss; it takes the latent from the batch
\* when `latents` is there, without calling the image encoder, and from the
\* encoder otherwise.
C4_LatentResolution ==
    (/\ step.outcome # "none"
     /\ "embed" \in step.batch_keys
     /\ step.batch_keys \cap {"image", "latents"} # {}) =>
        /\ step.outcome = "loss"
        /\ "latents" \in step.batch_keys =>
              step.latents_from = "batch" /\ ~step.vae_encoder_called
        /\ "latents" \notin step.batch_keys =>
              step.latents_from = "vae_encoder" /\ step.vae_encoder_called

\* C5: fatal checkpoint load.  When load_from names a record, construction
\* fails whenever the entries split off for the adapter or for the
\* denoising sub-network miss an expected key or carry an unexpected one;
\* when it succeeds, every parameter of both sub-networks holds the value
\* the record delivered for it, none its fresh value.
C5_FatalLoad ==
    loaded.used =>
        /\ (\/ Keys(loaded.adapter_state_dict) # AdapterKeySet
            \/ Keys(loaded.dit_state_dict) # DitKeySet) => phase = "failed"
        /\ phase # "failed" =>
              /\ Keys(adapter) = AdapterKeySet
              /\ Keys(dit) = DitKeySet
              /\ \A k \in AdapterKeySet :
                    Get(adapter, k) = Get(loaded.adapter_state_dict, k)
              /\ \A k \in DitKeySet :
                    Get(dit, k) = Get(loaded.dit_state_dict, k)

\* the adapter's entries are complete, the other sub-network's are not
C5_Witness ==
    /\ loaded.used
    /\ phase = "failed"
    /\ Keys(loaded.adapter_state_dict) = AdapterKeySet
    /\ Keys(loaded.dit_state_dict) # DitKeySet
    /\ Keys(loaded.dit_state_dict) \cap DitKeySet # {}

RateBelow(r, target) == r.num < target * r.den
RateEquals(r, target) == r.num = target * r.den
RateLeq(a, b) == a.num * b.den <= b.num * a.den

\* optimizer steps taken in this run
OptimizerSteps == batch_idx - (IF pending THEN 1 ELSE 0)

WarmupRates ==
    phase = "fitting" =>
        /\ OptimizerSteps = 0 =>
              \/ RateBelow(optimizer.lr, learning_rate)
              \/ lr_warmup_steps <= 1 /\ RateEquals(optimizer.lr, learning_rate)
        /\ OptimizerSteps >= lr_warmup_steps =>
              RateEquals(optimizer.lr, learning_rate)
        /\ lr_scheduler.interval = "step"
        /\ lr_scheduler.frequency = 1
        /\ lr_scheduler.last_epoch = OptimizerSteps

\* C6: warmup schedule.  The rate at optimizer step 0 is below the target
\* rate (or equal to it when the warmup count is at most 1), the rate at
\* every step from the warmup count on equals the target, the rate never
\* falls from one step to the next, and the schedule advances once per
\* optimizer step.
C6_Warmup ==
    [][/\ WarmupRates'
       /\ (phase = "fitting" /\ phase' = "fitting") =>
             RateLeq(optimizer.lr, optimizer'.lr)]_vars

C6_Witness ==
    /\ phase = "fitting"
    /\ lr_warmup_steps = MaxWarmup
    /\ OptimizerSteps > lr_warmup_steps
    /\ learning_rate = MaxRate

\* C7: optimizer coverage.  The one optimizer configure_optimizers builds
\* holds every adapter parameter and every parameter of the denoising
\* sub-network once, and this is the set of parameters with gradient
\* tracking enabled.
C7_OptimizerCoverage ==
    phase \in {"fitting", "crashed"} =>
        LET given == { optimizer.params[i] : i \in 1..Len(optimizer.params) }
        IN  /\ given = { p \in Params(dit_keys) : p[1] \in {"adapter", "dit"} }
            /\ given = { p \in Params(dit_keys) : requires_grad[p] }
            /\ Cardinality(given) = Len(optimizer.params)

C7_Witness ==
    /\ phase = "fitting"
    /\ optimizer.params # <<>>
    /\ \E p \in Params(dit_keys) : ~requires_grad[p]
    /\ batch_idx > 0

\* C8: timestep sampling.  A step that gets as far as drawing draws one
\* index, inside [0, num_train_timesteps) and inside the table that
\* set_timesteps(1000, training=True) built, and hands the one value found
\* there to add_noise, training_target, the backbone and training_weight.
C8_TimestepSampling ==
    step.outcome \notin {"none", "KeyError"} =>
        /\ step.outcome = "loss"
        /\ step.n_timestep_ids = 1
        /\ step.timestep_id \in 0..(scheduler.num_train_timesteps - 1)
        /\ scheduler.num_timesteps = 1000 /\ scheduler.training
        /\ step.timestep_id < scheduler.num_timesteps
        /\ step.timestep = timesteps(scheduler, step.timestep_id)
        /\ step.add_noise_timestep = step.timestep
        /\ step.training_target_timestep = step.timestep
        /\ step.dit_timestep = step.timestep
        /\ step.training_weight_timestep = step.timestep

C8_Witness ==
    /\ step.outcome = "loss"
    /\ step.timestep_id = scheduler.num_train_timesteps - 1
    /\ step.batch_keys = {"embed", "image"}

\* a training_step was called in this step
StepTaken == batch_idx' = batch_idx + 1

\* C9: step frame condition.  A training_step leaves every field of the
\* pipeline, the scheduler and the module as it found it.
C9_StepFrame ==
    [][StepTaken =>
          UNCHANGED <<adapter, dit, requires_grad, training, scheduler,
                      optimizer, lr_scheduler, learning_rate, lr_warmup_steps,
                      device, pipe_device>>]_vars

\* C9 as amended: a training_step leaves every field of the pipeline, the
\* scheduler and the module as it found it, except pipe.device, which it
\* sets to the module's device once the batch has been unpacked.
C9_StepFrameButDevice ==
    [][StepTaken =>
          /\ UNCHANGED <<adapter, dit, requires_grad, training, scheduler,
                         optimizer, lr_scheduler, learning_rate,
                         lr_warmup_steps, device>>
          /\ pipe_device' = IF step'.outcome = "KeyError"
                            THEN pipe_device ELSE device]_vars

C9_Witness ==
    /\ step.outcome = "loss"
    /\ batch_idx = 1
    /\ pipe_device = "cuda"

\* C10: prefix split on load.  The adapter is handed exactly the entries
\* whose key starts with "adapter." and the denoising sub-network exactly
\* those whose key starts with "pipe.dit.", each under its key without that
\* leading prefix; an entry with neither prefix goes to neither.
C10_PrefixSplit ==
    loaded.used =>
        /\ Items(loaded.adapter_state_dict) =
              { <<WithoutPrefix(e[1], ADAPTER_PREFIX), e[2]>> :
                  e \in { x \in Items(loaded.state_dict) :
                            startswith(x[1], ADAPTER_PREFIX) } }
        /\ Items(loaded.dit_state_dict) =
              { <<WithoutPrefix(e[1], DIT_PREFIX), e[2]>> :
                  e \in { x \in Items(loaded.state_dict) :
                            startswith(x[1], DIT_PREFIX) } }
====
